---- MODULE Spec2Model ----
(***************************************************************************)
(* Model of the eval-coach templates: the evaluators of                    *)
(* templates/evaluators.py and the comparator and reporters of             *)
(* templates/compare.py.                                                   *)
(*                                                                         *)
(* Python objects are tagged records ([t |-> "str", ...]); a dict with a   *)
(* fixed key universe is a record whose missing keys hold Absent.  Numbers *)
(* are exact rationals n/d (d > 0, lowest terms): the rounding of Python   *)
(* floats is outside the model.                                            *)
(***************************************************************************)
EXTENDS Integers, Sequences, FiniteSets, TLC

VARIABLES
    run,          \* the Run handed to the evaluator
    example,      \* example.outputs, the expectation record
    judge,        \* what ChatGoogleGenerativeAI(...).invoke does on this call
    result,       \* what the last evaluator call returned or raised
    store,        \* the run-storage backend: experiment name -> root runs
    experiment_names, \* compare_experiments' first argument
    metrics,      \* compare_experiments' second argument
    comparison,   \* the dict compare_experiments returned / the reporters read
    stdout,       \* lines printed so far by the last operation
    output_file,  \* generate_report's second argument
    report,       \* the lines generate_report returned
    files,        \* the file system: path -> content
    pc            \* which operation acted last

vars == <<run, example, judge, result, store, experiment_names, metrics,
          comparison, stdout, output_file, report, files, pc>>

(***************************************************************************)
(* Python values                                                           *)
(***************************************************************************)
Absent == [t |-> "absent"]
PyNone == [t |-> "None"]
PyStr(n, w) == [t |-> "str", len |-> n, words |-> w]
PyNum(n, d) == [t |-> "num", n |-> n, d |-> d]
PyList(items) == [t |-> "list", items |-> items]
PyBool(b) == [t |-> "bool", b |-> b]
PyTime(s) == [t |-> "datetime", s |-> s]
PyDict(d) == [t |-> "dict", d |-> d]

EmptyStr == PyStr(0, {})
EmptyList == PyList(<<>>)

RECURSIVE Gcd(_, _)
Gcd(a, b) == IF b = 0 THEN a ELSE Gcd(b, a % b)

Abs(n) == IF n < 0 THEN -n ELSE n

\* n/d in lowest terms with a positive denominator (d # 0)
Rat(n, d) ==
    LET g == Gcd(Abs(n), Abs(d))
        s == IF d < 0 THEN -1 ELSE 1
    IN  PyNum((s * n) \div g, (s * d) \div g)

Whole(n) == PyNum(n, 1)
Zero == Whole(0)
One == Whole(1)
Half == PyNum(1, 2)

RLe(a, b) == a.n * b.d <= b.n * a.d
RLt(a, b) == a.n * b.d < b.n * a.d
RAdd(a, b) == Rat(a.n * b.d + b.n * a.d, a.d * b.d)
RSub(a, b) == Rat(a.n * b.d - b.n * a.d, a.d * b.d)
RDiv(a, b) == Rat(a.n * b.d, a.d * b.n)
RMin(a, b) == IF RLt(b, a) THEN b ELSE a
RMax(a, b) == IF RLt(a, b) THEN b ELSE a

\* bool(v)
Truthy(v) ==
    CASE v.t = "None" -> FALSE
      [] v.t = "absent" -> FALSE
      [] v.t = "str" -> v.len > 0
      [] v.t = "num" -> v.n # 0
      [] v.t = "list" -> Len(v.items) > 0
      [] v.t = "bool" -> v.b
      [] v.t = "dict" -> \E k \in DOMAIN v.d : v.d[k] # Absent
      [] OTHER -> TRUE

\* a or b
PyOr(a, b) == IF Truthy(a) THEN a ELSE b

\* d.get(k, default) on a dict modelled as a record with Absent holes
DictGet(d, k, default) ==
    IF k \in DOMAIN d /\ d[k] # Absent THEN d[k] ELSE default

\* s.lower() on one word of a text
Lower(w) ==
    CASE w = "ERROR" -> "error"
      [] w = "Keyword1" -> "keyword1"
      [] OTHER -> w

LowerAll(ws) == {Lower(w) : w \in ws}

(***************************************************************************)
(* What an evaluator call does: it returns a dict or raises.               *)
(***************************************************************************)
Returned(k, sc, cm) ==
    [outcome |-> "returned", key |-> k, score |-> sc, comment |-> cm]

Raised(k, e) ==
    [outcome |-> "raised", key |-> k, exc |-> e]

NoResult == [outcome |-> "none"]

(***************************************************************************)
(* Shapes of the objects the templates read                                *)
(***************************************************************************)
\* run.outputs, a dict of the agent's output fields
Outputs(f, o, p) == [final_report |-> f, output |-> o, response |-> p]

\* the fields of a langsmith Run the evaluators read
DefaultRun ==
    [outputs |-> PyNone, error |-> PyNone, start_time |-> PyNone,
     end_time |-> PyNone, extra |-> PyNone, inputs |-> PyNone]

\* one evaluator call's arguments
Case(r, ex) == [run |-> r, example |-> ex]

\* the judge's reply
JudgeReply(kd, v) == [kind |-> kd, parsed |-> v]
JudgeJson(sc, g, m) ==
    JudgeReply("json", PyDict([score |-> sc, reasoning |-> g, mismatch_found |-> m]))
NoJudge == JudgeReply("none", PyNone)

TokenUsage(x) == PyDict([total_tokens |-> x])
Extra(u) == PyDict([token_usage |-> u])

OutputKeys == {"final_report", "output", "response"}
EmptyOutputs == [k \in OutputKeys |-> Absent]

\* run.outputs or {}
OutputsOrEmpty(r) == IF r.outputs = PyNone THEN EmptyOutputs ELSE r.outputs

\* output.get("final_report", "") or output.get("output", "") or output.get("response", "")
MainText(output) ==
    PyOr(PyOr(DictGet(output, "final_report", EmptyStr),
              DictGet(output, "output", EmptyStr)),
         DictGet(output, "response", EmptyStr))

\* len(v): defined for str and list only
HasLen(v) == v.t \in {"str", "list"}
PyLen(v) == IF v.t = "str" THEN v.len ELSE Len(v.items)

\* v[:n]: defined for str and list only
Sliceable(v) == v.t \in {"str", "list"}

(***************************************************************************)
(* Tier 1: automated evaluators                                            *)
(***************************************************************************)
schema_evaluator(r, ex) ==
    LET output == OutputsOrEmpty(r)
        expected == DictGet(ex, "expected_fields", EmptyList)
    IN  IF ~Truthy(expected)
        THEN Returned("schema_valid", One, <<"No expected fields defined">>)
        ELSE LET present == SelectSeq(expected.items,
                                LAMBDA f : DictGet(output, f, PyNone) # PyNone)
                 score == Rat(Len(present), Len(expected.items))
             IN  Returned("schema_valid", score,
                          IF score = One THEN <<"All fields present">>
                                         ELSE <<"Missing: ">>)

\* the words of json.dumps(output): the keys present and the text of the values
ValueWords(v) ==
    CASE v.t = "str" -> v.words
      [] v.t = "list" -> {v.items[i] : i \in DOMAIN v.items}
      [] OTHER -> {}

DumpsWords(output) ==
    {k \in DOMAIN output : output[k] # Absent}
        \cup UNION {ValueWords(output[k]) : k \in DOMAIN output}

keyword_coverage_evaluator(r, ex) ==
    LET output == OutputsOrEmpty(r)
        should_mention == DictGet(ex, "should_mention", EmptyList)
    IN  IF ~Truthy(should_mention)
        THEN Returned("keyword_coverage", One, <<"No keywords to check">>)
        ELSE LET output_text == LowerAll(DumpsWords(output))
                 found == SelectSeq(should_mention.items,
                              LAMBDA kw : Lower(kw) \in output_text)
                 score == Rat(Len(found), Len(should_mention.items))
             IN  Returned("keyword_coverage", score,
                          IF score = One THEN <<"All keywords found">>
                                         ELSE <<"Missing: ">>)

report_length_evaluator(r, ex) ==
    LET output == OutputsOrEmpty(r)
        response == MainText(output)
        min_len == DictGet(ex, "min_report_length", Zero)
    IN  IF ~Truthy(min_len)
        THEN Returned("report_length", One, <<"No minimum length defined">>)
        ELSE IF ~HasLen(response)
        THEN Raised("report_length", "TypeError")
        ELSE LET actual == Whole(PyLen(response))
                 score == RMin(One, RDiv(actual, min_len))
             IN  Returned("report_length", score,
                          IF RLt(score, One) THEN <<"Too short: ">>
                                             ELSE <<"Length OK: ">>)

graceful_error_evaluator(r, ex) ==
    LET should_handle == DictGet(ex, "should_handle_gracefully", PyBool(FALSE))
    IN  IF ~Truthy(should_handle)
        THEN Returned("graceful_error", One, <<"Not an error case">>)
        ELSE IF Truthy(r.error)
        THEN Returned("graceful_error", Zero, <<"Agent crashed: ", "error">>)
        ELSE LET output == OutputsOrEmpty(r)
                 has_output == Truthy(MainText(output))
             IN  IF has_output
                 THEN Returned("graceful_error", One,
                               <<"Handled gracefully with output">>)
                 ELSE Returned("graceful_error", Half,
                               <<"No crash but no output either">>)

(***************************************************************************)
(* Tier 1: performance evaluators                                          *)
(***************************************************************************)
DefaultMaxLatency == 30
DefaultMaxTokens == 10000

\* not run.start_time and not run.end_time: timing is looked at only if neither is there
NoTimingIfBothMissing(r) == ~Truthy(r.start_time) /\ ~Truthy(r.end_time)

\* not run.start_time or not run.end_time
NoTiming(r) == ~Truthy(r.start_time) \/ ~Truthy(r.end_time)

latency_evaluator(r, ex) ==
    LET max_latency == DictGet(ex, "max_latency_seconds", Whole(DefaultMaxLatency))
    IN  IF NoTiming(r)
        THEN Returned("latency_seconds", Half, <<"No timing data available">>)
        ELSE IF r.start_time.t # "datetime" \/ r.end_time.t # "datetime"
        THEN Raised("latency_seconds", "TypeError")
        ELSE LET latency == Whole(r.end_time.s - r.start_time.s)
             IN  IF max_latency.n = 0
                 THEN Raised("latency_seconds", "ZeroDivisionError")
                 ELSE Returned("latency_seconds",
                               RMax(Zero, RSub(One, RDiv(latency, max_latency))),
                               <<"s (threshold: ", "s)">>)

NoTokenUsage == TokenUsage(Absent)

token_efficiency_evaluator(r, ex) ==
    LET max_tokens == DictGet(ex, "max_tokens", Whole(DefaultMaxTokens))
        extra == IF Truthy(r.extra) THEN r.extra.d ELSE [token_usage |-> Absent]
        token_usage == DictGet(extra, "token_usage", NoTokenUsage)
    IN  IF token_usage.t # "dict"
        THEN Raised("token_efficiency", "AttributeError")
        ELSE LET total_tokens == DictGet(token_usage.d, "total_tokens", Zero)
             IN  IF ~Truthy(total_tokens)
                 THEN Returned("token_efficiency", Half,
                               <<"No token data available">>)
                 ELSE IF max_tokens.n = 0
                 THEN Raised("token_efficiency", "ZeroDivisionError")
                 ELSE Returned("token_efficiency",
                               RMax(Zero, RSub(One, RDiv(total_tokens, max_tokens))),
                               <<" tokens (threshold: ", ")">>)

(***************************************************************************)
(* Tier 2: LLM-as-judge evaluators.  judge says what the judge call does:  *)
(* kind "raises" (the constructor or invoke raises), "text" (the content   *)
(* is not JSON) or "json" (json.loads gives parsed).                       *)
(***************************************************************************)
InputKeys == {"query", "target", "linkedin_url", "company_name", "company"}
EmptyInputs == [k \in InputKeys |-> Absent]

\* run.inputs or {}
InputsOrEmpty(r) == IF r.inputs = PyNone THEN EmptyInputs ELSE r.inputs

JudgeError(key, reason) == Returned(key, Half, <<"Judge error: ", reason>>)

\* llm.invoke(judge_prompt); json.loads(result.content)
JudgeParse(j) ==
    CASE j.kind = "raises" -> [ok |-> FALSE, why |-> "invoke failed", value |-> PyNone]
      [] j.kind = "text" -> [ok |-> FALSE, why |-> "JSONDecodeError", value |-> PyNone]
      [] OTHER -> [ok |-> TRUE, why |-> "", value |-> j.parsed]

\* the try block reading the score with parsed.get("score", 0): no KeyError
ScoreOutOfFiveDefaulted(key, j) ==
    LET got == JudgeParse(j)
        parsed == got.value
    IN  IF ~got.ok THEN JudgeError(key, got.why)
        ELSE IF parsed.t # "dict" THEN JudgeError(key, "TypeError")
        ELSE LET sc == DictGet(parsed.d, "score", Zero)
             IN  IF sc.t # "num" THEN JudgeError(key, "TypeError")
                 ELSE Returned(key, RDiv(sc, Whole(5)), <<"reasoning">>)

\* the body of the try block of quality_evaluator and relevance_evaluator
ScoreOutOfFive(key, j) ==
    LET got == JudgeParse(j)
        parsed == got.value
    IN  IF ~got.ok THEN JudgeError(key, got.why)
        ELSE IF parsed.t # "dict" THEN JudgeError(key, "TypeError")
        ELSE IF parsed.d.score = Absent THEN JudgeError(key, "'score'")
        ELSE IF parsed.d.score.t # "num" THEN JudgeError(key, "TypeError")
        ELSE LET reasoning == DictGet(parsed.d, "reasoning", EmptyStr)
             IN  Returned(key, RDiv(parsed.d.score, Whole(5)),
                          IF Truthy(reasoning) THEN <<"reasoning">> ELSE <<>>)

quality_evaluator(r, j) ==
    LET output == OutputsOrEmpty(r)
        response == MainText(output)
    IN  IF ~Truthy(response)
        THEN Returned("quality", Zero, <<"No output to evaluate">>)
        ELSE IF ~Sliceable(response)
        THEN Raised("quality", "TypeError")
        ELSE ScoreOutOfFive("quality", j)

relevance_evaluator(r, j) ==
    LET inputs == InputsOrEmpty(r)
        output == OutputsOrEmpty(r)
        query == PyOr(PyOr(DictGet(inputs, "query", EmptyStr),
                           DictGet(inputs, "target", EmptyStr)),
                      PyStr(2, {"{}"}))
        response == MainText(output)
    IN  IF ~Truthy(response)
        THEN Returned("relevance", Zero, <<"No output to evaluate">>)
        ELSE IF ~Sliceable(response)
        THEN Raised("relevance", "TypeError")
        ELSE ScoreOutOfFive("relevance", j)

input_data_consistency_evaluator(r, j) ==
    LET inputs == InputsOrEmpty(r)
        output == OutputsOrEmpty(r)
        target == PyOr(DictGet(inputs, "linkedin_url", EmptyStr),
                       DictGet(inputs, "target", EmptyStr))
        company == PyOr(DictGet(inputs, "company_name", EmptyStr),
                        DictGet(inputs, "company", EmptyStr))
        rep == MainText(output)
        got == JudgeParse(j)
        res == got.value
    IN  IF ~Truthy(rep) \/ ~Truthy(company)
        THEN Returned("input_data_consistency", One,
                      <<"No company/report to verify">>)
        ELSE IF ~Sliceable(rep)
        THEN Raised("input_data_consistency", "TypeError")
        ELSE IF ~got.ok THEN JudgeError("input_data_consistency", got.why)
        ELSE IF res.t # "dict"
        THEN JudgeError("input_data_consistency", "AttributeError")
        ELSE Returned("input_data_consistency",
                      DictGet(res.d, "score", Half),
                      <<"Mismatch: ", " - ">>)

(***************************************************************************)
(* Tier 3: human-in-the-loop                                               *)
(***************************************************************************)
ReviewFloor == 200
FailurePhrases == {"error", "sorry", "unable to"}

needs_human_review(r, ex) ==
    LET output == OutputsOrEmpty(r)
        response == MainText(output)
    IN  IF ~HasLen(response)
        THEN Raised("needs_human_review", "TypeError")
        ELSE IF PyLen(response) < ReviewFloor
        THEN Returned("needs_human_review", Zero, <<"Flagged for human review">>)
        ELSE IF response.t # "str"
        THEN Raised("needs_human_review", "AttributeError")
        ELSE LET needs_review ==
                     \/ LowerAll(response.words) \cap FailurePhrases # {}
                     \/ r.error # PyNone
             IN  Returned("needs_human_review",
                          IF needs_review THEN Zero ELSE One,
                          IF needs_review THEN <<"Flagged for human review">>
                                          ELSE <<"Auto-approved">>)

(***************************************************************************)
(* The runs, expectation records and judge replies the evaluators are      *)
(* called with.                                                            *)
(***************************************************************************)
ShortText == PyStr(150, {})
LongText == PyStr(300, {})

FinalReportValues ==
    {Absent, PyNone, EmptyStr, ShortText, LongText, PyStr(300, {"ERROR"}),
     PyStr(300, {"keyword1"}), Whole(7), PyList(<<"a", "b", "c">>)}
OutputValues == {Absent, LongText}
ResponseValues == {Absent, PyNone, EmptyStr, PyStr(300, {"sorry"}), Whole(7)}

OutputsValues ==
    {PyNone} \cup
    {Outputs(f, o, p) :
        f \in FinalReportValues, o \in OutputValues, p \in ResponseValues}

ErrorValues == {PyNone, PyStr(7, {"timeout"})}
TimeValues == {PyNone, PyTime(0), PyTime(15), PyTime(45)}

TokenUsageValues ==
    {Absent, PyNone, TokenUsage(Absent), TokenUsage(Zero),
     TokenUsage(Whole(5000)), TokenUsage(Whole(20000))}
ExtraValues == {PyNone} \cup {Extra(u) : u \in TokenUsageValues}

Company == PyStr(9, {"anthropic"})
InputsValues ==
    {PyNone, EmptyInputs,
     [EmptyInputs EXCEPT !["company_name"] = Company],
     [EmptyInputs EXCEPT !["company_name"] = EmptyStr, !["company"] = Company],
     [EmptyInputs EXCEPT !["query"] = LongText, !["company_name"] = PyNone],
     [EmptyInputs EXCEPT !["linkedin_url"] = LongText, !["company"] = Company]}

ExampleKeys ==
    {"expected_fields", "should_mention", "min_report_length",
     "should_handle_gracefully", "max_latency_seconds", "max_tokens"}
EmptyExample == [k \in ExampleKeys |-> Absent]

ExamplesOnOutputs ==
    {EmptyExample}
    \cup {[EmptyExample EXCEPT !["expected_fields"] = PyList(l)] :
            l \in {<<>>, <<"response">>, <<"response", "summary">>}}
    \cup {[EmptyExample EXCEPT !["should_mention"] = PyList(l)] :
            l \in {<<>>, <<"Keyword1">>, <<"keyword1", "report">>}}
    \cup {[EmptyExample EXCEPT !["min_report_length"] = Whole(n)] :
            n \in {0, 200, 500}}
    \cup {[EmptyExample EXCEPT !["should_handle_gracefully"] = PyBool(b)] :
            b \in BOOLEAN}
ExamplesOnLatency ==
    {EmptyExample}
    \cup {[EmptyExample EXCEPT !["max_latency_seconds"] = Whole(n)] :
            n \in {0, 10}}
ExamplesOnTokens ==
    {EmptyExample}
    \cup {[EmptyExample EXCEPT !["max_tokens"] = Whole(n)] : n \in {0, 8000}}

\* runs varying in outputs and error, against every output-side expectation
CasesOnOutputs ==
    {Case([DefaultRun EXCEPT !.outputs = o, !.error = e], ex) :
        o \in OutputsValues, e \in ErrorValues, ex \in ExamplesOnOutputs}
CasesOnTiming ==
    {Case([DefaultRun EXCEPT !.start_time = s, !.end_time = e], ex) :
        s \in TimeValues, e \in TimeValues, ex \in ExamplesOnLatency}
CasesOnExtra ==
    {Case([DefaultRun EXCEPT !.extra = x], ex) :
        x \in ExtraValues, ex \in ExamplesOnTokens}
CasesOnInputs ==
    {Case([DefaultRun EXCEPT !.outputs = o, !.inputs = i], EmptyExample) :
        o \in OutputsValues, i \in InputsValues}

Cases == CasesOnOutputs \cup CasesOnTiming \cup CasesOnExtra \cup CasesOnInputs

JudgeScores ==
    {Absent, PyNone, PyStr(4, {"high"}), Zero, Half, One, PyNum(3, 2),
     Whole(3), Whole(5), Whole(7)}
JudgeReplies ==
    {JudgeReply("raises", PyNone), JudgeReply("text", PyNone),
     JudgeReply("json", Whole(3)), JudgeReply("json", PyList(<<"a">>))}
    \cup {JudgeJson(sc, g, Absent) : sc \in JudgeScores, g \in {Absent, ShortText}}

(***************************************************************************)
(* compare_experiments                                                     *)
(***************************************************************************)
\* an insertion-ordered Python dict: its keys in order, and their values
EmptyDict == [keys |-> <<>>, val |-> <<>>]
DictKeys(d) == {d.keys[i] : i \in DOMAIN d.keys}

\* d[k] = v
DictSet(d, k, v) ==
    IF k \in DictKeys(d)
    THEN [keys |-> d.keys, val |-> [d.val EXCEPT ![k] = v]]
    ELSE [keys |-> Append(d.keys, k), val |-> (k :> v) @@ d.val]

\* a stored root run with the feedback the backend attached to it
StoredRun(fs) == [feedback_stats |-> fs]
\* one entry of feedback_stats
Stats(v) == [avg |-> v]
\* what a call has printed and built so far
Progress(c, out) == [comparison |-> c, stdout |-> out]
\* lines of text, printed or put in the report
WarningLine(nm) == [kind |-> "warning", name |-> nm]
TextLine(tx) == [kind |-> "text", text |-> tx]
BestLine(nm) == [kind |-> "best", name |-> nm]
OverallBestLine(nm) == [kind |-> "overall_best", name |-> nm]
RowLine(m, cs) == [kind |-> "row", metric |-> m, cells |-> cs]
HeaderLine(cs) == [kind |-> "header", cells |-> cs]
Cell(v, b) == [shown |-> v, bold |-> b]

MetricKeys == {"accuracy", "latency"}
\* the metric keys in sorted() order
MetricOrder == <<"accuracy", "latency">>
NoMetrics == [k \in MetricKeys |-> Absent]

ListItems(l) == {l.items[i] : i \in DOMAIN l.items}

\* stats.get("avg", 0)
StatsAvg(st) == DictGet(st, "avg", Zero)

\* the loop over run.feedback_stats.items() that overwrites the list of a key
\* (exp_metrics[key] = [avg]) instead of appending to it
CollectOverwriting(exp_metrics, fs, mfilter) ==
    [k \in MetricKeys |->
        IF fs[k] = Absent \/ (Truthy(mfilter) /\ k \notin ListItems(mfilter))
        THEN exp_metrics[k]
        ELSE PyList(<<StatsAvg(fs[k])>>)]

\* the loop over the keys that appends a 0 for a key the run lacks
CollectZeroFilled(exp_metrics, fs, mfilter) ==
    [k \in MetricKeys |->
        IF Truthy(mfilter) /\ k \notin ListItems(mfilter)
        THEN exp_metrics[k]
        ELSE PyList(Append(IF exp_metrics[k] = Absent THEN <<>>
                                                      ELSE exp_metrics[k].items,
                           IF fs[k] = Absent THEN Zero ELSE StatsAvg(fs[k])))]

\* for key, stats in run.feedback_stats.items(): ... exp_metrics[key].append(...)
Collect(exp_metrics, fs, mfilter) ==
    [k \in MetricKeys |->
        IF fs[k] = Absent \/ (Truthy(mfilter) /\ k \notin ListItems(mfilter))
        THEN exp_metrics[k]
        ELSE PyList(Append(IF exp_metrics[k] = Absent THEN <<>>
                                                      ELSE exp_metrics[k].items,
                           StatsAvg(fs[k])))]

\* for run in experiments: if run.feedback_stats: ...
RECURSIVE Aggregate(_, _, _)
Aggregate(experiments, mfilter, exp_metrics) ==
    IF experiments = <<>> THEN exp_metrics
    ELSE LET fs == Head(experiments).feedback_stats
         IN  Aggregate(Tail(experiments), mfilter,
                       IF Truthy(fs) THEN Collect(exp_metrics, fs.d, mfilter)
                                     ELSE exp_metrics)

RECURSIVE Sum(_)
Sum(vals) == IF vals = <<>> THEN Zero ELSE RAdd(Head(vals), Sum(Tail(vals)))

\* sum(vals) / len(vals) if vals else 0
Mean(vals) == IF vals = <<>> THEN Zero ELSE RDiv(Sum(vals), Whole(Len(vals)))

\* {key: mean for key, vals in exp_metrics.items()}
Averages(exp_metrics) ==
    [k \in MetricKeys |->
        IF exp_metrics[k] = Absent THEN Absent ELSE Mean(exp_metrics[k].items)]

\* list(client.list_runs(project_name=exp_name, is_root=True))
Fetch(st, exp_name) == IF exp_name \in DOMAIN st THEN st[exp_name] ELSE <<>>

RECURSIVE CompareLoop(_, _, _, _)

\* an experiment without runs ends the loop (break for continue)
NoRunsStops(names, mfilter, st, acc) ==
    Progress(acc.comparison, Append(acc.stdout, WarningLine(Head(names))))

\* if not experiments: print(f"Warning: ..."); continue
NoRuns(names, mfilter, st, acc) ==
    CompareLoop(Tail(names), mfilter, st,
                Progress(acc.comparison,
                         Append(acc.stdout, WarningLine(Head(names)))))

\* for exp_name in experiment_names: ...
CompareLoop(names, mfilter, st, acc) ==
    IF names = <<>> THEN acc
    ELSE LET exp_name == Head(names)
             experiments == Fetch(st, exp_name)
         IN  IF experiments = <<>>
             THEN NoRuns(names, mfilter, st, acc)
             ELSE CompareLoop(Tail(names), mfilter, st,
                     Progress(DictSet(acc.comparison, exp_name,
                                      Averages(Aggregate(experiments, mfilter,
                                                         NoMetrics))),
                              acc.stdout))

compare_experiments(names, mfilter, st) ==
    CompareLoop(names, mfilter, st, Progress(EmptyDict, <<>>))

(***************************************************************************)
(* print_comparison and generate_report                                    *)
(***************************************************************************)
\* f"{val:.3f}": the value in thousandths, rounded to the nearest (ties to even)
Fmt3(v) ==
    LET q == (v.n * 1000) \div v.d
        r == (v.n * 1000) % v.d
    IN  IF 2 * r > v.d \/ (2 * r = v.d /\ q % 2 = 1) THEN q + 1 ELSE q

\* all_metrics: the union of the experiments' metric keys
AllMetrics(c) ==
    {k \in MetricKeys : \E e \in DictKeys(c) : c.val[e][k] # Absent}

\* sorted(all_metrics)
SortedMetrics(c) == SelectSeq(MetricOrder, LAMBDA m : m \in AllMetrics(c))

\* [comparison[exp_name].get(metric, 0) for exp_name in exp_names]
ValuesOf(c, metric) ==
    [i \in DOMAIN c.keys |-> DictGet(c.val[c.keys[i]], metric, Zero)]

MaxOf(values) ==
    CHOOSE x \in {values[i] : i \in DOMAIN values} :
        \A i \in DOMAIN values : RLe(values[i], x)
MinOf(values) ==
    CHOOSE x \in {values[i] : i \in DOMAIN values} :
        \A i \in DOMAIN values : RLe(x, values[i])

\* winner_idx = values.index(max(values))
WinnerIdx(values) ==
    CHOOSE i \in DOMAIN values :
        /\ values[i] = MaxOf(values)
        /\ \A j \in 1..(i - 1) : values[j] # MaxOf(values)

\* one metric's row, and the line naming its winner unless all values tie
PrintedRow(c, metric) ==
    LET values == ValuesOf(c, metric)
        row == RowLine(metric, [i \in DOMAIN values |-> Cell(Fmt3(values[i]), FALSE)])
    IN  IF values # <<>> /\ MaxOf(values) # MinOf(values)
        THEN <<row, BestLine(c.keys[WinnerIdx(values)])>>
        ELSE <<row>>

RECURSIVE PrintedRows(_, _)
PrintedRows(c, ms) ==
    IF ms = <<>> THEN <<>>
    ELSE PrintedRow(c, Head(ms)) \o PrintedRows(c, Tail(ms))

\* what print_comparison(comparison) prints
print_comparison(c) ==
    IF c.keys = <<>>
    THEN <<TextLine("No comparison data available")>>
    ELSE <<HeaderLine(c.keys), TextLine("-----")>> \o PrintedRows(c, SortedMetrics(c))

\* one row of the report's table: a cell is bold when its value equals
\* max(values) of the values appended so far
ReportRow(c, metric) ==
    LET values == ValuesOf(c, metric)
    IN  RowLine(metric,
                [i \in DOMAIN values |->
                    Cell(Fmt3(values[i]),
                         values[i] = MaxOf(SubSeq(values, 1, i)))])

\* sum(metrics.values())
Total(c, e) ==
    LET present == SelectSeq(MetricOrder, LAMBDA m : c.val[e][m] # Absent)
    IN  Sum([i \in DOMAIN present |-> c.val[e][present[i]]])

\* experiment names in the order of Python's string comparison
NameOrder == <<"A", "B", "C">>
NameRank(e) == CHOOSE i \in DOMAIN NameOrder : NameOrder[i] = e

\* max(totals): the greatest name, not the name of the greatest total
GreatestName(c) ==
    CHOOSE e \in DictKeys(c) : \A o \in DictKeys(c) : NameRank(o) <= NameRank(e)

\* winner = max(totals, key=totals.get): the first key with the greatest total
Winner(c) ==
    LET totals == [i \in DOMAIN c.keys |-> Total(c, c.keys[i])]
    IN  c.keys[WinnerIdx(totals)]

\* the lines generate_report builds up to the point where it saves and returns
ReportLines(c) ==
    IF c.keys = <<>>
    THEN <<TextLine("# Experiment Comparison Report\n"),
           TextLine("No comparison data available.\n")>>
    ELSE <<TextLine("# Experiment Comparison Report\n"), TextLine("## Summary\n"),
           HeaderLine(c.keys), TextLine("|---|")>>
         \o [i \in DOMAIN SortedMetrics(c) |-> ReportRow(c, SortedMetrics(c)[i])]
         \o <<TextLine("\n## Recommendations\n"), OverallBestLine(Winner(c))>>

\* the output_file argument when a path is given
OutputFile(path) == [t |-> "path", name |-> path]
SavedLine(path) == [kind |-> "saved", name |-> path]

\* generate_report(comparison, output_file): the report, the files and the
\* lines printed; the empty comparison returns before anything is saved
generate_report(c, out_file, fs) ==
    IF c.keys # <<>> /\ Truthy(out_file)
    THEN [stdout |-> <<SavedLine(out_file.name)>>,
          report |-> ReportLines(c),
          files |-> (out_file.name :> ReportLines(c)) @@ fs]
    ELSE [stdout |-> <<>>, report |-> ReportLines(c), files |-> fs]

Init ==
    /\ run = DefaultRun
    /\ example = EmptyExample
    /\ judge = NoJudge
    /\ result = NoResult
    /\ store = <<>>
    /\ experiment_names = <<>>
    /\ metrics = PyNone
    /\ comparison = EmptyDict
    /\ stdout = <<>>
    /\ output_file = PyNone
    /\ report = <<>>
    /\ files = <<>>
    /\ pc = "init"

(***************************************************************************)
(* Evaluator calls                                                         *)
(***************************************************************************)
compareVars ==
    <<store, experiment_names, metrics, comparison, stdout, output_file, report,
      files>>

\* One action per evaluator: the harness calls it on a case; a judge-backed
\* evaluator also meets one behaviour of the judge.
SchemaCall ==
    /\ pc = "init"
    /\ \E c \in Cases :
        /\ run' = c.run
        /\ example' = c.example
        /\ result' = schema_evaluator(c.run, c.example)
    /\ judge' = NoJudge
    /\ pc' = "schema_evaluator"
    /\ UNCHANGED compareVars

KeywordCall ==
    /\ pc = "init"
    /\ \E c \in Cases :
        /\ run' = c.run
        /\ example' = c.example
        /\ result' = keyword_coverage_evaluator(c.run, c.example)
    /\ judge' = NoJudge
    /\ pc' = "keyword_coverage_evaluator"
    /\ UNCHANGED compareVars

LengthCall ==
    /\ pc = "init"
    /\ \E c \in Cases :
        /\ run' = c.run
        /\ example' = c.example
        /\ result' = report_length_evaluator(c.run, c.example)
    /\ judge' = NoJudge
    /\ pc' = "report_length_evaluator"
    /\ UNCHANGED compareVars

GracefulCall ==
    /\ pc = "init"
    /\ \E c \in Cases :
        /\ run' = c.run
        /\ example' = c.example
        /\ result' = graceful_error_evaluator(c.run, c.example)
    /\ judge' = NoJudge
    /\ pc' = "graceful_error_evaluator"
    /\ UNCHANGED compareVars

LatencyCall ==
    /\ pc = "init"
    /\ \E c \in Cases :
        /\ run' = c.run
        /\ example' = c.example
        /\ result' = latency_evaluator(c.run, c.example)
    /\ judge' = NoJudge
    /\ pc' = "latency_evaluator"
    /\ UNCHANGED compareVars

TokenCall ==
    /\ pc = "init"
    /\ \E c \in Cases :
        /\ run' = c.run
        /\ example' = c.example
        /\ result' = token_efficiency_evaluator(c.run, c.example)
    /\ judge' = NoJudge
    /\ pc' = "token_efficiency_evaluator"
    /\ UNCHANGED compareVars

ReviewCall ==
    /\ pc = "init"
    /\ \E c \in Cases :
        /\ run' = c.run
        /\ example' = c.example
        /\ result' = needs_human_review(c.run, c.example)
    /\ judge' = NoJudge
    /\ pc' = "needs_human_review"
    /\ UNCHANGED compareVars

QualityCall ==
    /\ pc = "init"
    /\ \E c \in CasesOnInputs, j \in JudgeReplies :
        /\ run' = c.run
        /\ example' = c.example
        /\ judge' = j
        /\ result' = quality_evaluator(c.run, j)
    /\ pc' = "quality_evaluator"
    /\ UNCHANGED compareVars

RelevanceCall ==
    /\ pc = "init"
    /\ \E c \in CasesOnInputs, j \in JudgeReplies :
        /\ run' = c.run
        /\ example' = c.example
        /\ judge' = j
        /\ result' = relevance_evaluator(c.run, j)
    /\ pc' = "relevance_evaluator"
    /\ UNCHANGED compareVars

ConsistencyCall ==
    /\ pc = "init"
    /\ \E c \in CasesOnInputs, j \in JudgeReplies :
        /\ run' = c.run
        /\ example' = c.example
        /\ judge' = j
        /\ result' = input_data_consistency_evaluator(c.run, j)
    /\ pc' = "input_data_consistency_evaluator"
    /\ UNCHANGED compareVars

\* the harness is done with the case and takes the next one
NextCase ==
    /\ pc # "init"
    /\ run' = DefaultRun
    /\ example' = EmptyExample
    /\ judge' = NoJudge
    /\ result' = NoResult
    /\ pc' = "init"
    /\ UNCHANGED compareVars

EvalNext ==
    \/ NextCase
    \/ SchemaCall
    \/ KeywordCall
    \/ LengthCall
    \/ GracefulCall
    \/ LatencyCall
    \/ TokenCall
    \/ ReviewCall
    \/ QualityCall
    \/ RelevanceCall
    \/ ConsistencyCall

EvalSpec == Init /\ [][EvalNext]_vars

(***************************************************************************)
(* Properties of the evaluators (EvalSpec)                                 *)
(***************************************************************************)
Called == pc # "init"
Judged == {"quality_evaluator", "relevance_evaluator",
           "input_data_consistency_evaluator"}

\* what the called evaluator saw
TheText == MainText(OutputsOrEmpty(run))
TheCompany ==
    PyOr(DictGet(InputsOrEmpty(run), "company_name", EmptyStr),
         DictGet(InputsOrEmpty(run), "company", EmptyStr))
InUnitInterval(x) == x.t = "num" /\ RLe(Zero, x) /\ RLe(x, One)

\* C1: every evaluator is total: whatever the run and the expectation record,
\* the call returns an EvalResult and never raises.
C1_EvaluatorsTotal == Called => result.outcome = "returned"

\* C2: the score of every EvalResult an evaluator returns lies in [0,1].
C2_ScoreInUnitInterval ==
    (Called /\ result.outcome = "returned") => InUnitInterval(result.score)

\* the judge call raises, or its answer is no JSON, or (quality, relevance)
\* the answer is a JSON object without a score
JudgeFailure ==
    \/ judge.kind \in {"raises", "text"}
    \/ /\ pc \in {"quality_evaluator", "relevance_evaluator"}
       /\ judge.kind = "json"
       /\ judge.parsed.t = "dict"
       /\ judge.parsed.d.score = Absent
FailureReason ==
    CASE judge.kind = "raises" -> "invoke failed"
      [] judge.kind = "text" -> "JSONDecodeError"
      [] OTHER -> "'score'"
JudgedOnText ==
    /\ pc \in Judged
    /\ TheText.t = "str"
    /\ Truthy(TheText)
    /\ pc = "input_data_consistency_evaluator" => Truthy(TheCompany)

\* C3: a judge-backed evaluator called on a run with non-empty main text (and,
\* for consistency, a non-empty company) whose judge call fails returns score
\* 0.5 with a non-empty comment that contains the failure reason; nothing is raised.
C3_JudgeFailureIsSentinel ==
    (JudgedOnText /\ JudgeFailure) =>
        /\ result.outcome = "returned"
        /\ result.score = Half
        /\ Len(result.comment) > 0
        /\ \E i \in DOMAIN result.comment : result.comment[i] = FailureReason

C3_Witness ==
    /\ JudgedOnText
    /\ pc = "relevance_evaluator"
    /\ judge.kind = "json"
    /\ JudgeFailure
    /\ result.outcome = "returned"
    /\ result.score = Half

\* the signal an evaluator needs is not there
TimingAbsent == run.start_time = PyNone \/ run.end_time = PyNone
TokenCountAbsent ==
    \/ run.extra = PyNone
    \/ run.extra.d.token_usage = Absent
    \/ /\ run.extra.d.token_usage.t = "dict"
       /\ run.extra.d.token_usage.d.total_tokens = Absent
CompanyOrReportAbsent == ~Truthy(TheCompany) \/ ~Truthy(TheText)

SentinelReturned == result.outcome = "returned" /\ result.score = Half

C5_ErrorForcesFailure ==
    run.error # PyNone =>
        /\ pc = "graceful_error_evaluator" =>
            /\ result.outcome = "returned"
            /\ result.score =
                 IF Truthy(DictGet(example, "should_handle_gracefully", PyBool(FALSE)))
                 THEN Zero ELSE One
        /\ pc = "needs_human_review" =>
            (result.outcome = "returned" /\ result.score = Zero)

(***************************************************************************)
(* Calls of compare_experiments (CompareSpec)                              *)
(***************************************************************************)
evalVars == <<run, example, judge, result>>

MaxRuns == 2

Feedback(a, l) == PyDict([k \in MetricKeys |-> IF k = "accuracy" THEN a ELSE l])
FeedbackValues ==
    {PyNone} \cup {Feedback(a, l) : a \in {Absent, Stats(Zero), Stats(One)},
                                    l \in {Absent, Stats(Half)}}
StoredRuns == {StoredRun(fs) : fs \in FeedbackValues}
RunLists(n) == UNION {[1..k -> StoredRuns] : k \in 0..n}

\* what the backend may hold of the second experiment: nothing or one run
BaselineRuns ==
    {<<>>} \cup {<<StoredRun(fs)>> :
                    fs \in {PyNone, Feedback(Stats(One), Absent),
                            Feedback(Stats(Zero), Stats(Half))}}

\* the backend holds up to MaxRuns runs of one experiment, at most one of a
\* second, and none of "ghost_exp"
Stores ==
    {("impl_a_v1" :> ra) @@ ("impl_b_v1" :> rb) :
        ra \in RunLists(MaxRuns), rb \in BaselineRuns}

ExperimentNames == {"impl_a_v1", "impl_b_v1", "ghost_exp"}
Injective(sq) == \A i, j \in DOMAIN sq : sq[i] = sq[j] => i = j
NameLists ==
    {sq \in UNION {[1..k -> ExperimentNames] : k \in 0..Cardinality(ExperimentNames)} :
        Injective(sq)}
MetricFilters == {PyNone, PyList(<<>>), PyList(<<"accuracy">>)}

CompareCall ==
    /\ pc = "init"
    /\ \E st \in Stores, names \in NameLists, mfilter \in MetricFilters :
        LET done == compare_experiments(names, mfilter, st)
        IN  /\ store' = st
            /\ experiment_names' = names
            /\ metrics' = mfilter
            /\ comparison' = done.comparison
            /\ stdout' = done.stdout
    /\ pc' = "compare_experiments"
    /\ UNCHANGED <<evalVars, output_file, report, files>>

\* the caller drops the result and starts over
CompareAgain ==
    /\ pc = "compare_experiments"
    /\ store' = <<>>
    /\ experiment_names' = <<>>
    /\ metrics' = PyNone
    /\ comparison' = EmptyDict
    /\ stdout' = <<>>
    /\ pc' = "init"
    /\ UNCHANGED <<evalVars, output_file, report, files>>

CompareNext ==
    \/ CompareCall
    \/ CompareAgain

CompareSpec == Init /\ [][CompareNext]_vars

(***************************************************************************)
(* Properties of compare_experiments (CompareSpec)                         *)
(***************************************************************************)
Compared == pc = "compare_experiments"
Listed == {experiment_names[i] : i \in DOMAIN experiment_names}
HasRuns(nm) == Fetch(store, nm) # <<>>
Warned(nm) == \E i \in DOMAIN stdout : stdout[i] = WarningLine(nm)
Without(nm) == SelectSeq(experiment_names, LAMBDA x : x # nm)

\* C6: an experiment whose fetch returns no runs is warned about and is no
\* key of the result, and every listed experiment with runs is a key with the
\* values it gets when the empty experiment is left out of the list.
C6_EmptyExperimentSkipped ==
    Compared =>
        \A ghost \in Listed :
            ~HasRuns(ghost) =>
                /\ Warned(ghost)
                /\ ghost \notin DictKeys(comparison)
                /\ \A nm \in Listed :
                    HasRuns(nm) =>
                        /\ nm \in DictKeys(comparison)
                        /\ comparison.val[nm] =
                             compare_experiments(Without(ghost), metrics, store)
                                 .comparison.val[nm]

C6_Witness ==
    /\ Compared
    /\ experiment_names = <<"impl_a_v1", "ghost_exp", "impl_b_v1">>
    /\ DictKeys(comparison) = {"impl_a_v1", "impl_b_v1"}
    /\ Warned("ghost_exp")
    /\ comparison.val["impl_b_v1"]["accuracy"] = One

\* the avg values of the runs of an experiment whose feedback has key k
AvgsOf(nm, k) ==
    LET with == SelectSeq(Fetch(store, nm),
                    LAMBDA r : r.feedback_stats # PyNone
                               /\ r.feedback_stats.d[k] # Absent)
    IN  [i \in DOMAIN with |-> with[i].feedback_stats.d[k].avg]

\* the mean of k over the runs that have it, or Absent when k is filtered
\* out or in no run's feedback
ExpectedMean(nm, k, wanted) ==
    IF wanted /\ AvgsOf(nm, k) # <<>>
    THEN RDiv(Sum(AvgsOf(nm, k)), Whole(Len(AvgsOf(nm, k))))
    ELSE Absent

\* C7 as stated: result[experiment][k] is the mean of the avg values of the
\* runs whose feedback has k, for k in the metrics set whenever one is given;
\* a key in no run's feedback, or outside the given set, is no key.
C7_PerMetricMean ==
    Compared =>
        \A nm \in Listed : HasRuns(nm) =>
            \A k \in MetricKeys :
                comparison.val[nm][k] =
                    ExpectedMean(nm, k, metrics = PyNone \/ k \in ListItems(metrics))

\* C7 amended: the same, the metrics restriction applying only to a non-empty
\* metrics list: an empty list restricts nothing, like no list at all.
C7_PerMetricMeanAmended ==
    Compared =>
        \A nm \in Listed : HasRuns(nm) =>
            \A k \in MetricKeys :
                comparison.val[nm][k] =
                    ExpectedMean(nm, k, metrics = PyNone \/ metrics = EmptyList
                                        \/ k \in ListItems(metrics))

C7_Witness ==
    /\ Compared
    /\ "impl_a_v1" \in Listed
    /\ Len(store["impl_a_v1"]) = 2
    /\ store["impl_a_v1"][1].feedback_stats = Feedback(Stats(One), Absent)
    /\ store["impl_a_v1"][2].feedback_stats = Feedback(Absent, Stats(Half))
    /\ metrics = PyNone
    /\ comparison.val["impl_a_v1"]["accuracy"] = One
    /\ comparison.val["impl_a_v1"]["latency"] = Half

Permuted(sq, p) == [i \in DOMAIN sq |-> sq[p[i]]]
Perms(sq) == {Permuted(sq, p) : p \in Permutations(DOMAIN sq)}
\* the store with the runs of each experiment reordered
Reorderings(st) ==
    {("impl_a_v1" :> ra) @@ ("impl_b_v1" :> rb) :
        ra \in Perms(st["impl_a_v1"]), rb \in Perms(st["impl_b_v1"])}
SameAggregation(c1, c2) == DictKeys(c1) = DictKeys(c2) /\ c1.val = c2.val

Score(n, d) == PyNum(n, d)
MetricsOf(a, l) == [k \in MetricKeys |-> IF k = "accuracy" THEN a ELSE l]
ExperimentMetrics ==
    {MetricsOf(a, l) : a \in {Absent, Zero, Score(9, 10), Score(19, 20)},
                       l \in {Absent, Score(2, 5), Score(4, 5)}}
ReportNames == {NameOrder[i] : i \in DOMAIN NameOrder}
KeyLists ==
    {sq \in UNION {[1..k -> ReportNames] : k \in 0..Cardinality(ReportNames)} :
        Injective(sq)}
Aggregations ==
    UNION {{[keys |-> ks, val |-> v] :
                v \in [{ks[i] : i \in DOMAIN ks} -> ExperimentMetrics]} :
           ks \in KeyLists}

ReportPath == "comparison_report.md"
OutputFiles == {PyNone, OutputFile(ReportPath)}

PrintCall ==
    /\ pc = "init"
    /\ \E agg \in Aggregations :
        /\ comparison' = agg
        /\ stdout' = print_comparison(agg)
    /\ pc' = "print_comparison"
    /\ UNCHANGED <<evalVars, store, experiment_names, metrics, output_file,
                   report, files>>

ReportCall ==
    /\ pc = "init"
    /\ \E agg \in Aggregations, out_file \in OutputFiles :
        LET done == generate_report(agg, out_file, files)
        IN  /\ comparison' = agg
            /\ output_file' = out_file
            /\ report' = done.report
            /\ files' = done.files
            /\ stdout' = done.stdout
    /\ pc' = "generate_report"
    /\ UNCHANGED <<evalVars, store, experiment_names, metrics>>

\* what is at the path before the call, when anything is
EarlierContent == <<TextLine("an earlier report")>>

\* an earlier report is already at the path
EarlierReport ==
    /\ pc = "init"
    /\ files = <<>>
    /\ files' = (ReportPath :> EarlierContent)
    /\ UNCHANGED <<evalVars, store, experiment_names, metrics, comparison,
                   stdout, output_file, report, pc>>

\* the caller starts over in a clean directory
ReportAgain ==
    /\ pc \in {"print_comparison", "generate_report"}
    /\ comparison' = EmptyDict
    /\ stdout' = <<>>
    /\ output_file' = PyNone
    /\ report' = <<>>
    /\ files' = <<>>
    /\ pc' = "init"
    /\ UNCHANGED <<evalVars, store, experiment_names, metrics>>

ReportNext ==
    \/ PrintCall
    \/ ReportCall
    \/ EarlierReport
    \/ ReportAgain

ReportSpec == Init /\ [][ReportNext]_vars

(***************************************************************************)
(* Properties of the reporters (ReportSpec)                                *)
(***************************************************************************)
Printed == pc = "print_comparison"
Reported == pc = "generate_report"
ValueIn(e, m) == DictGet(comparison.val[e], m, Zero)
NotAllEqual(m) ==
    \E e1, e2 \in DictKeys(comparison) : ValueIn(e1, m) # ValueIn(e2, m)
IsBestLineOf(i, m, w) ==
    /\ i > 1
    /\ stdout[i] = BestLine(w)
    /\ stdout[i - 1].kind = "row"
    /\ stdout[i - 1].metric = m

\* A = {accuracy: 0.9, latency: 0.8}, B = {accuracy: 0.95, latency: 0.4}
ExampleAggregation ==
    [keys |-> <<"A", "B">>,
     val |-> ("A" :> MetricsOf(Score(9, 10), Score(4, 5)))
             @@ ("B" :> MetricsOf(Score(19, 20), Score(2, 5)))]
ExampleBestLines ==
    /\ Len(stdout) = 6
    /\ IsBestLineOf(4, "accuracy", "B")
    /\ IsBestLineOf(6, "latency", "A")

\* C9 as stated: a Best line is printed only when the metric's values are not
\* all equal, and names an experiment whose value is strictly greater than
\* that of every other experiment (absent counting as 0); the example names
\* B for accuracy and A for latency.
C9_BestIsStrictMaximum ==
    Printed =>
        /\ \A i \in DOMAIN stdout, m \in MetricKeys, w \in DictKeys(comparison) :
            IsBestLineOf(i, m, w) =>
                /\ NotAllEqual(m)
                /\ \A e \in DictKeys(comparison) \ {w} :
                        RLt(ValueIn(e, m), ValueIn(w, m))
        /\ comparison = ExampleAggregation => ExampleBestLines

\* the name read back from the report's recommendation line
OverallBestNames ==
    {report[i].name : i \in {j \in DOMAIN report : report[j].kind = "overall_best"}}
TotalOf(e) == RAdd(ValueIn(e, "accuracy"), ValueIn(e, "latency"))

\* C10: for a non-empty Aggregation the report has one Overall Best line, and
\* the experiment it names has a sum of metric averages no smaller than that
\* of any experiment; the example names A.
C10_OverallBestIsArgMax ==
    (Reported /\ comparison.keys # <<>>) =>
        /\ Cardinality({j \in DOMAIN report : report[j].kind = "overall_best"}) = 1
        /\ \A w \in OverallBestNames :
            /\ w \in DictKeys(comparison)
            /\ \A e \in DictKeys(comparison) : RLe(TotalOf(e), TotalOf(w))
        /\ comparison = ExampleAggregation => OverallBestNames = {"A"}

C10_Witness ==
    /\ Reported
    /\ comparison = ExampleAggregation
    /\ OverallBestNames = {"A"}

\* the rows of the report's table and of the printed table
ReportRowsOf(m) == {i \in DOMAIN report : report[i].kind = "row" /\ report[i].metric = m}
PrintedShown(m) ==
    {ln.cells : ln \in {print_comparison(comparison)[i] :
                            i \in {j \in DOMAIN print_comparison(comparison) :
                                     /\ print_comparison(comparison)[j].kind = "row"
                                     /\ print_comparison(comparison)[j].metric = m}}}

\* C11: in every metric row of the report table a cell is bold if and only if
\* its value is the maximum of that metric over all experiments (absent
\* counting as 0), whatever the order of the columns, and the row shows the
\* values the tabular renderer prints.
C11_BoldIsRowMaximum ==
    (Reported /\ comparison.keys # <<>>) =>
        \A m \in AllMetrics(comparison) :
            /\ Cardinality(ReportRowsOf(m)) = 1
            /\ \A r \in ReportRowsOf(m) :
                /\ DOMAIN report[r].cells = DOMAIN comparison.keys
                /\ \A i \in DOMAIN comparison.keys :
                    report[r].cells[i].bold <=>
                        \A e \in DictKeys(comparison) :
                            RLe(ValueIn(e, m), ValueIn(comparison.keys[i], m))
                /\ PrintedShown(m) =
                     {[i \in DOMAIN comparison.keys |->
                          Cell(report[r].cells[i].shown, FALSE)]}

NoDataReport ==
    <<TextLine("# Experiment Comparison Report\n"),
      TextLine("No comparison data available.\n")>>

\* C12: when a path is given, the file at the path holds exactly the returned
\* report after the call, for every Aggregation, the empty one included (whose
\* report is the no-data message); when no path is given no file is written.
C12_ReportPersisted ==
    Reported =>
        /\ comparison.keys = <<>> => report = NoDataReport
        /\ output_file # PyNone =>
            /\ output_file.name \in DOMAIN files
            /\ files[output_file.name] = report
        /\ output_file = PyNone =>
            (files = <<>> \/ files = (ReportPath :> EarlierContent))

====
